---- MODULE Spec2Model ----
(***************************************************************************)
(* Model of backend/services/ai_service.py: the AIService extractive       *)
(* summariser (AIService.__init__ and AIService.summarize) with the        *)
(* module helpers _has_arabic, _normalize_whitespace, _split_sentences and *)
(* _tokenize.                                                              *)
(*                                                                         *)
(* A string is a sequence of Unicode code points, and every helper scans   *)
(* it the way the regular expression of the source does.  Sentence indices *)
(* are zero-based as in the source; TLA+ sequences are one-based, so the   *)
(* sentence of index idx is sentences[idx + 1].                            *)
(*                                                                         *)
(* ratio is a float given as <<num, bits>>, of value num / 2^bits; for the  *)
(* small num and bits drawn here len(sentences) * ratio is exact in binary *)
(* floating point.                                                         *)
(*                                                                         *)
(* The word weights and the sentence scores are Python floats, IEEE 754    *)
(* binary64: every division and every addition of the source is rounded to *)
(* 53 significant bits, to nearest, ties to even (FloatDiv, FloatAdd), so  *)
(* that two scores are equal here exactly when the floats of the source    *)
(* are.  A float is [m |-> significand, e |-> exponent], of value m * 2^e; *)
(* the significand is wider than the integers of the model checker and is  *)
(* kept as a sequence of 15-bit limbs (Big...).  The weights and scores    *)
(* lie between 2^-16 and 2^31, far from overflow and from the subnormal    *)
(* numbers, so the exponent is not bounded.                                *)
(***************************************************************************)
EXTENDS Integers, Sequences, FiniteSets, TLC

VARIABLES
    pc,                 \* "new" (before __init__), "ready", "done" (summarize returned or raised)
    arg_stopwords_ar,   \* __init__ argument stopwords_ar: [none |-> TRUE] is None
    arg_stopwords_en,   \* __init__ argument stopwords_en
    stopwords_ar,       \* self.stopwords_ar
    stopwords_en,       \* self.stopwords_en
    text,               \* summarize argument text, named by its pieces (see TextArg)
    max_sentences,      \* summarize argument max_sentences
    ratio,              \* summarize argument ratio: <<num, bits>> is num / 2^bits
    min_sentence_len,   \* summarize argument min_sentence_len
    locals,             \* the locals of summarize at its end (see Locals)
    result              \* what summarize returned (or the exception it raised)

vars == <<pc, arg_stopwords_ar, arg_stopwords_en, stopwords_ar, stopwords_en,
          text, max_sentences, ratio, min_sentence_len, locals, result>>

----------------------------------------------------------------------------
(* Characters *)

\* The characters str.isspace() and the regex class \s accept.
Whitespace ==
    (9..13) \cup (28..32) \cup {133, 160, 5760} \cup (8192..8202)
        \cup {8232, 8233, 8239, 8287, 12288}

\* [\u0600-\u06FF], the Arabic block
_AR_CHARS_RE == 1536..1791

\* [.!?\u061F\u2026] (. ! ? Arabic question mark, ellipsis), the lookbehind of
\* _SENTENCE_SPLIT_RE
SentenceEnd == {46, 33, 63, 1567, 8230}

\* The zero of every run of ten Unicode decimal digits (category Nd), the
\* characters the class \d of a str pattern accepts (Unicode 14, the character
\* database of Python 3.11).
DigitZeros == {
    48, 1632, 1776, 1984, 2406, 2534, 2662, 2790, 2918, 3046, 3174, 3302, 3430, 3558, 3664, 3792,
    3872, 4160, 4240, 6112, 6160, 6470, 6608, 6784, 6800, 6992, 7088, 7232, 7248, 42528, 43216,
    43264, 43472, 43504, 43600, 44016, 65296, 66720, 68912, 69734, 69872, 69942, 70096, 70384,
    70736, 70864, 71248, 71360, 71472, 71904, 72016, 72784, 73040, 73120, 92768, 92864, 93008,
    120782, 120792, 120802, 120812, 120822, 123200, 123632, 125264, 130032 }

\* [\dA-Za-z\u00C0-\u00D6\u00D8-\u00F6\u00F8-\u00FF\u0600-\u06FF]
_WORD_RE ==
    (65..90) \cup (97..122) \cup (192..214) \cup (216..246) \cup (248..255)
        \cup (1536..1791) \cup UNION {z..(z + 9) : z \in DigitZeros}

\* The characters that str.lower() maps to one other character (Unicode 14), in runs
\* <<first, last, step, delta>>: the characters first, first + step, .., last
\* each move by delta.
LowerRuns == {
    <<65, 90, 1, 32>>, <<192, 214, 1, 32>>, <<216, 222, 1, 32>>, <<256, 302, 2, 1>>,
    <<306, 310, 2, 1>>, <<313, 327, 2, 1>>, <<330, 374, 2, 1>>, <<376, 376, 1, -121>>,
    <<377, 381, 2, 1>>, <<385, 385, 1, 210>>, <<386, 388, 2, 1>>, <<390, 390, 1, 206>>,
    <<391, 391, 1, 1>>, <<393, 394, 1, 205>>, <<395, 395, 1, 1>>, <<398, 398, 1, 79>>,
    <<399, 399, 1, 202>>, <<400, 400, 1, 203>>, <<401, 401, 1, 1>>, <<403, 403, 1, 205>>,
    <<404, 404, 1, 207>>, <<406, 406, 1, 211>>, <<407, 407, 1, 209>>, <<408, 408, 1, 1>>,
    <<412, 412, 1, 211>>, <<413, 413, 1, 213>>, <<415, 415, 1, 214>>, <<416, 420, 2, 1>>,
    <<422, 422, 1, 218>>, <<423, 423, 1, 1>>, <<425, 425, 1, 218>>, <<428, 428, 1, 1>>,
    <<430, 430, 1, 218>>, <<431, 431, 1, 1>>, <<433, 434, 1, 217>>, <<435, 437, 2, 1>>,
    <<439, 439, 1, 219>>, <<440, 440, 1, 1>>, <<444, 444, 1, 1>>, <<452, 452, 1, 2>>,
    <<453, 453, 1, 1>>, <<455, 455, 1, 2>>, <<456, 456, 1, 1>>, <<458, 458, 1, 2>>,
    <<459, 475, 2, 1>>, <<478, 494, 2, 1>>, <<497, 497, 1, 2>>, <<498, 500, 2, 1>>,
    <<502, 502, 1, -97>>, <<503, 503, 1, -56>>, <<504, 542, 2, 1>>, <<544, 544, 1, -130>>,
    <<546, 562, 2, 1>>, <<570, 570, 1, 10795>>, <<571, 571, 1, 1>>, <<573, 573, 1, -163>>,
    <<574, 574, 1, 10792>>, <<577, 577, 1, 1>>, <<579, 579, 1, -195>>, <<580, 580, 1, 69>>,
    <<581, 581, 1, 71>>, <<582, 590, 2, 1>>, <<880, 882, 2, 1>>, <<886, 886, 1, 1>>,
    <<895, 895, 1, 116>>, <<902, 902, 1, 38>>, <<904, 906, 1, 37>>, <<908, 908, 1, 64>>,
    <<910, 911, 1, 63>>, <<913, 929, 1, 32>>, <<931, 939, 1, 32>>, <<975, 975, 1, 8>>,
    <<984, 1006, 2, 1>>, <<1012, 1012, 1, -60>>, <<1015, 1015, 1, 1>>, <<1017, 1017, 1, -7>>,
    <<1018, 1018, 1, 1>>, <<1021, 1023, 1, -130>>, <<1024, 1039, 1, 80>>, <<1040, 1071, 1, 32>>,
    <<1120, 1152, 2, 1>>, <<1162, 1214, 2, 1>>, <<1216, 1216, 1, 15>>, <<1217, 1229, 2, 1>>,
    <<1232, 1326, 2, 1>>, <<1329, 1366, 1, 48>>, <<4256, 4293, 1, 7264>>, <<4295, 4295, 1, 7264>>,
    <<4301, 4301, 1, 7264>>, <<5024, 5103, 1, 38864>>, <<5104, 5109, 1, 8>>,
    <<7312, 7354, 1, -3008>>, <<7357, 7359, 1, -3008>>, <<7680, 7828, 2, 1>>,
    <<7838, 7838, 1, -7615>>, <<7840, 7934, 2, 1>>, <<7944, 7951, 1, -8>>, <<7960, 7965, 1, -8>>,
    <<7976, 7983, 1, -8>>, <<7992, 7999, 1, -8>>, <<8008, 8013, 1, -8>>, <<8025, 8031, 2, -8>>,
    <<8040, 8047, 1, -8>>, <<8072, 8079, 1, -8>>, <<8088, 8095, 1, -8>>, <<8104, 8111, 1, -8>>,
    <<8120, 8121, 1, -8>>, <<8122, 8123, 1, -74>>, <<8124, 8124, 1, -9>>, <<8136, 8139, 1, -86>>,
    <<8140, 8140, 1, -9>>, <<8152, 8153, 1, -8>>, <<8154, 8155, 1, -100>>, <<8168, 8169, 1, -8>>,
    <<8170, 8171, 1, -112>>, <<8172, 8172, 1, -7>>, <<8184, 8185, 1, -128>>,
    <<8186, 8187, 1, -126>>, <<8188, 8188, 1, -9>>, <<8486, 8486, 1, -7517>>,
    <<8490, 8490, 1, -8383>>, <<8491, 8491, 1, -8262>>, <<8498, 8498, 1, 28>>,
    <<8544, 8559, 1, 16>>, <<8579, 8579, 1, 1>>, <<9398, 9423, 1, 26>>, <<11264, 11311, 1, 48>>,
    <<11360, 11360, 1, 1>>, <<11362, 11362, 1, -10743>>, <<11363, 11363, 1, -3814>>,
    <<11364, 11364, 1, -10727>>, <<11367, 11371, 2, 1>>, <<11373, 11373, 1, -10780>>,
    <<11374, 11374, 1, -10749>>, <<11375, 11375, 1, -10783>>, <<11376, 11376, 1, -10782>>,
    <<11378, 11378, 1, 1>>, <<11381, 11381, 1, 1>>, <<11390, 11391, 1, -10815>>,
    <<11392, 11490, 2, 1>>, <<11499, 11501, 2, 1>>, <<11506, 11506, 1, 1>>, <<42560, 42604, 2, 1>>,
    <<42624, 42650, 2, 1>>, <<42786, 42798, 2, 1>>, <<42802, 42862, 2, 1>>, <<42873, 42875, 2, 1>>,
    <<42877, 42877, 1, -35332>>, <<42878, 42886, 2, 1>>, <<42891, 42891, 1, 1>>,
    <<42893, 42893, 1, -42280>>, <<42896, 42898, 2, 1>>, <<42902, 42920, 2, 1>>,
    <<42922, 42922, 1, -42308>>, <<42923, 42923, 1, -42319>>, <<42924, 42924, 1, -42315>>,
    <<42925, 42925, 1, -42305>>, <<42926, 42926, 1, -42308>>, <<42928, 42928, 1, -42258>>,
    <<42929, 42929, 1, -42282>>, <<42930, 42930, 1, -42261>>, <<42931, 42931, 1, 928>>,
    <<42932, 42946, 2, 1>>, <<42948, 42948, 1, -48>>, <<42949, 42949, 1, -42307>>,
    <<42950, 42950, 1, -35384>>, <<42951, 42953, 2, 1>>, <<42960, 42960, 1, 1>>,
    <<42966, 42968, 2, 1>>, <<42997, 42997, 1, 1>>, <<65313, 65338, 1, 32>>,
    <<66560, 66599, 1, 40>>, <<66736, 66771, 1, 40>>, <<66928, 66938, 1, 39>>,
    <<66940, 66954, 1, 39>>, <<66956, 66962, 1, 39>>, <<66964, 66965, 1, 39>>,
    <<68736, 68786, 1, 64>>, <<71840, 71871, 1, 32>>, <<93760, 93791, 1, 32>>,
    <<125184, 125217, 1, 34>> }

\* The lower-case mapping as a function on the characters of LowerRuns.
LowerTable ==
    [c \in UNION {{r[1] + r[3] * i : i \in 0..((r[2] - r[1]) \div r[3])} : r \in LowerRuns}
        |-> c + (CHOOSE r \in LowerRuns :
                     c \in r[1]..r[2] /\ (c - r[1]) % r[3] = 0)[4]]

\* str.lower() on one character, as a string: U+0130 becomes two characters
\* (i and the combining dot above), the characters of LowerTable one, every
\* other character stays.  (A capital sigma becomes the small sigma, or the
\* final small sigma by its place in a word; neither is a character of
\* _WORD_RE, and the small sigma is given here.)
Lower(c) ==
    IF c = 304 THEN <<105, 775>>
    ELSE IF c \in DOMAIN LowerTable THEN <<LowerTable[c]>>
    ELSE <<c>>

Newline == 10
Space == 32

----------------------------------------------------------------------------
(* Built-in stopword sets, a word per line in the order of the source *)

_STOPWORDS_EN == {
    <<116,104,101>>,                             \* "the", line 24
    <<97>>,                                      \* "a", line 24
    <<97,110>>,                                  \* "an", line 24
    <<105,115>>,                                 \* "is", line 24
    <<97,114,101>>,                              \* "are", line 24
    <<119,97,115>>,                              \* "was", line 24
    <<119,101,114,101>>,                         \* "were", line 24
    <<98,101>>,                                  \* "be", line 24
    <<98,101,101,110>>,                          \* "been", line 24
    <<98,101,105,110,103>>,                      \* "being", line 24
    <<105,110>>,                                 \* "in", line 25
    <<111,110>>,                                 \* "on", line 25
    <<97,116>>,                                  \* "at", line 25
    <<111,102>>,                                 \* "of", line 25
    <<102,111,114>>,                             \* "for", line 25
    <<116,111>>,                                 \* "to", line 25
    <<102,114,111,109>>,                         \* "from", line 25
    <<119,105,116,104>>,                         \* "with", line 25
    <<119,105,116,104,111,117,116>>,             \* "without", line 25
    <<98,121>>,                                  \* "by", line 25
    <<97,110,100>>,                              \* "and", line 26
    <<111,114>>,                                 \* "or", line 26
    <<98,117,116>>,                              \* "but", line 26
    <<105,102>>,                                 \* "if", line 26
    <<116,104,101,110>>,                         \* "then", line 26
    <<115,111>>,                                 \* "so", line 26
    <<116,104,97,110>>,                          \* "than", line 26
    <<97,115>>,                                  \* "as", line 26
    <<116,104,97,116>>,                          \* "that", line 26
    <<116,104,105,115>>,                         \* "this", line 26
    <<116,104,101,115,101>>,                     \* "these", line 27
    <<116,104,111,115,101>>,                     \* "those", line 27
    <<105,116>>,                                 \* "it", line 27
    <<105,116,115>>,                             \* "its", line 27
    <<105,110,116,111>>,                         \* "into", line 27
    <<97,98,111,117,116>>,                       \* "about", line 27
    <<111,118,101,114>>,                         \* "over", line 27
    <<97,102,116,101,114>>,                      \* "after", line 27
    <<98,101,102,111,114,101>>,                  \* "before", line 27
    <<117,110,100,101,114>>,                     \* "under", line 28
    <<97,98,111,118,101>>,                       \* "above", line 28
    <<121,111,117>>,                             \* "you", line 28
    <<119,101>>,                                 \* "we", line 28
    <<116,104,101,121>>,                         \* "they", line 28
    <<104,101>>,                                 \* "he", line 28
    <<115,104,101>>,                             \* "she", line 28
    <<104,105,115>>,                             \* "his", line 28
    <<104,101,114>>,                             \* "her", line 28
    <<116,104,101,105,114>>,                     \* "their", line 28
    <<111,117,114>>,                             \* "our", line 29
    <<121,111,117,114>>,                         \* "your", line 29
    <<110,111,116>>,                             \* "not", line 29
    <<110,111>>,                                 \* "no", line 29
    <<100,111>>,                                 \* "do", line 29
    <<100,111,101,115>>,                         \* "does", line 29
    <<100,105,100>>,                             \* "did", line 29
    <<100,111,110,101>>,                         \* "done", line 29
    <<99,97,110>>,                               \* "can", line 29
    <<99,111,117,108,100>>,                      \* "could", line 29
    <<115,104,111,117,108,100>>,                 \* "should", line 30
    <<119,111,117,108,100>>,                     \* "would", line 30
    <<119,105,108,108>>,                         \* "will", line 30
    <<106,117,115,116>>,                         \* "just", line 30
    <<97,108,115,111>>,                          \* "also", line 30
    <<115,117,99,104>>,                          \* "such", line 30
    <<105>>,                                     \* "i", line 30
    <<109,101>>,                                 \* "me", line 30
    <<109,121>>,                                 \* "my", line 30
    <<109,121,115,101,108,102>>,                 \* "myself", line 30
    <<111,117,114,115>>,                         \* "ours", line 31
    <<121,111,117,114,115>>,                     \* "yours", line 31
    <<116,104,101,105,114,115>>,                 \* "theirs", line 31
    <<119,104,97,116>>,                          \* "what", line 31
    <<119,104,105,99,104>>,                      \* "which", line 31
    <<119,104,111>>,                             \* "who", line 31
    <<119,104,111,109>>,                         \* "whom", line 31
    <<119,104,101,114,101>>,                     \* "where", line 31
    <<119,104,101,110>>,                         \* "when", line 31
    <<119,104,121>>,                             \* "why", line 32
    <<104,111,119>>,                             \* "how", line 32
    <<97,108,108>>,                              \* "all", line 32
    <<97,110,121>>,                              \* "any", line 32
    <<98,111,116,104>>,                          \* "both", line 32
    <<101,97,99,104>>,                           \* "each", line 32
    <<102,101,119>>,                             \* "few", line 32
    <<109,111,114,101>>,                         \* "more", line 32
    <<109,111,115,116>>,                         \* "most", line 32
    <<111,116,104,101,114>>,                     \* "other", line 32
    <<115,111,109,101>>,                         \* "some", line 33
    <<111,119,110>>,                             \* "own", line 33
    <<115,97,109,101>>,                          \* "same", line 33
    <<115>>,                                     \* "s", line 33
    <<116>>,                                     \* "t", line 33
    <<100>>,                                     \* "d", line 33
    <<108,108>>,                                 \* "ll", line 33
    <<109>>,                                     \* "m", line 33
    <<111>>,                                     \* "o", line 33
    <<114,101>>,                                 \* "re", line 33
    <<118,101>>,                                 \* "ve", line 33
    <<121>>                                      \* "y", line 33
    }

_STOPWORDS_AR == {
    <<1608>>,                                    \* line 37
    <<1601,1610>>,                               \* line 37
    <<1593,1604,1609>>,                          \* line 37
    <<1605,1606>>,                               \* line 37
    <<1573,1604,1609>>,                          \* line 37
    <<1575,1604,1609>>,                          \* line 37
    <<1593,1606>>,                               \* line 37
    <<1607,1584,1575>>,                          \* line 37
    <<1607,1584,1607>>,                          \* line 37
    <<1584,1604,1603>>,                          \* line 37
    <<1578,1604,1603>>,                          \* line 37
    <<1607,1606,1575,1603>>,                     \* line 38
    <<1607,1606,1575>>,                          \* line 38
    <<1607,1608>>,                               \* line 38
    <<1607,1610>>,                               \* line 38
    <<1607,1605>>,                               \* line 38
    <<1607,1606>>,                               \* line 38
    <<1571,1606,1575>>,                          \* line 38
    <<1575,1606,1575>>,                          \* line 38
    <<1571,1606,1578>>,                          \* line 38
    <<1575,1606,1578>>,                          \* line 38
    <<1571,1606,1578,1605>>,                     \* line 38
    <<1575,1606,1578,1605>>,                     \* line 39
    <<1571,1606,1578,1606>>,                     \* line 39
    <<1575,1606,1578,1606>>,                     \* line 39
    <<1606,1581,1606>>,                          \* line 39
    <<1603,1605,1575>>,                          \* line 39
    <<1605,1579,1604>>,                          \* line 39
    <<1604,1603,1606>>,                          \* line 39
    <<1576,1604>>,                               \* line 39
    <<1571,1608>>,                               \* line 39
    <<1575,1608>>,                               \* line 39
    <<1571,1605>>,                               \* line 39
    <<1575,1605>>,                               \* line 40
    <<1605,1593>>,                               \* line 40
    <<1571,1603,1579,1585>>,                     \* line 40
    <<1575,1603,1579,1585>>,                     \* line 40
    <<1571,1602,1604>>,                          \* line 40
    <<1575,1602,1604>>,                          \* line 40
    <<1602,1583>>,                               \* line 40
    <<1604,1602,1583>>,                          \* line 40
    <<1604,1605>>,                               \* line 40
    <<1604,1606>>,                               \* line 40
    <<1604,1575>>,                               \* line 40
    <<1605,1575>>,                               \* line 41
    <<1605,1575,1584,1575>>,                     \* line 41
    <<1604,1605,1575,1584,1575>>,                \* line 41
    <<1603,1610,1601>>,                          \* line 41
    <<1571,1610,1606>>,                          \* line 41
    <<1575,1610,1606>>,                          \* line 41
    <<1605,1578,1609>>,                          \* line 41
    <<1573,1606>>,                               \* line 41
    <<1575,1606>>,                               \* line 41
    <<1571,1606>>,                               \* line 41
    <<1571,1606,1617>>,                          \* line 41
    <<1603,1575,1606>>,                          \* line 42
    <<1578,1603,1608,1606>>,                     \* line 42
    <<1610,1603,1608,1606>>,                     \* line 42
    <<1603,1575,1606,1578>>,                     \* line 42
    <<1603,1575,1606,1608,1575>>,                \* line 42
    <<1587,1608,1601>>,                          \* line 42
    <<1603,1604>>,                               \* line 42
    <<1571,1610>>,                               \* line 42
    <<1575,1610>>,                               \* line 42
    <<1576,1593,1590>>,                          \* line 43
    <<1576,1610,1606>>,                          \* line 43
    <<1590,1605,1606>>,                          \* line 43
    <<1582,1604,1575,1604>>,                     \* line 43
    <<1602,1576,1604>>,                          \* line 43
    <<1576,1593,1583>>,                          \* line 43
    <<1593,1606,1583>>,                          \* line 43
    <<1593,1606,1583,1605,1575>>,                \* line 43
    <<1581,1610,1579>>,                          \* line 43
    <<1573,1584>>,                               \* line 43
    <<1575,1584>>,                               \* line 44
    <<1573,1604,1575>>,                          \* line 44
    <<1575,1604,1575>>,                          \* line 44
    <<1571,1610,1590,1611,1575>>,                \* line 44
    <<1575,1610,1590,1611,1575>>,                \* line 44
    <<1575,1610,1590,1575>>,                     \* line 44
    <<1580,1583,1611,1575>>,                     \* line 44
    <<1580,1583,1575>>                           \* line 44
    }

----------------------------------------------------------------------------
(* Helpers *)

Min2(a, b) == IF a <= b THEN a ELSE b
Max2(a, b) == IF a >= b THEN a ELSE b

\* `x or ""`, `x or DEFAULT`: None and the empty value are both falsy.
OrElse(x, empty, default) == IF x.none \/ x.val = empty THEN default ELSE x.val

None == [none |-> TRUE, val |-> <<>>]
NoneSet == [none |-> TRUE, val |-> {}]
Some(v) == [none |-> FALSE, val |-> v]

RECURSIVE SkipWhile(_, _, _)
\* The first position >= i of s whose character is not in set (Len(s) + 1 if none).
SkipWhile(s, i, set) ==
    IF i > Len(s) \/ s[i] \notin set THEN i ELSE SkipWhile(s, i + 1, set)

RECURSIVE LastNonWs(_, _)
LastNonWs(s, i) ==
    IF i < 1 \/ s[i] \notin Whitespace THEN i ELSE LastNonWs(s, i - 1)

\* str.strip()
Strip(s) == SubSeq(s, SkipWhile(s, 1, Whitespace), LastNonWs(s, Len(s)))

RECURSIVE Concat(_, _, _)
\* f[lo] \o ... \o f[hi], by halves (the recursion stays shallow on long texts).
Concat(f, lo, hi) ==
    IF lo > hi THEN <<>>
    ELSE IF lo = hi THEN f[lo]
    ELSE LET mid == (lo + hi) \div 2
         IN  Concat(f, lo, mid) \o Concat(f, mid + 1, hi)

\* re.sub(r"\s+", " ", s): every maximal run of whitespace becomes one space,
\* written at the first character of the run; every other character is kept.
SubWs(s) ==
    Concat([i \in 1..Len(s) |->
               IF s[i] \notin Whitespace THEN <<s[i]>>
               ELSE IF i = 1 \/ s[i - 1] \notin Whitespace THEN <<Space>>
               ELSE <<>>],
           1, Len(s))

_has_arabic(t) == \E i \in 1..Len(t) : t[i] \in _AR_CHARS_RE

_normalize_whitespace(t) == SubWs(Strip(t))

\* Whether _SENTENCE_SPLIT_RE, (?<=[.!?\u061F\u2026])\s+|\n+, matches at position j
\* of s: whitespace preceded by a sentence-ending mark, or a newline.
SplitMatchesAt(s, j) ==
    \/ j > 1 /\ s[j - 1] \in SentenceEnd /\ s[j] \in Whitespace
    \/ s[j] = Newline

\* Where the match that begins at j ends (exclusive): the first alternative
\* takes the whole whitespace run, the second the run of newlines.
SplitMatchEnd(s, j) ==
    IF j > 1 /\ s[j - 1] \in SentenceEnd
    THEN SkipWhile(s, j, Whitespace)
    ELSE SkipWhile(s, j, {Newline})

RECURSIVE SplitRe(_, _, _)
\* _SENTENCE_SPLIT_RE.split(s), scanning from position start: the part up to
\* the leftmost match at or after start, then the rest after that match.
SplitRe(s, start, parts) ==
    LET matches == {j \in start..Len(s) : SplitMatchesAt(s, j)}
    IN  IF matches = {} THEN Append(parts, SubSeq(s, start, Len(s)))
        ELSE LET j == CHOOSE m \in matches : \A o \in matches : m <= o
             IN  SplitRe(s, SplitMatchEnd(s, j),
                         Append(parts, SubSeq(s, start, j - 1)))

RECURSIVE StripAll(_, _, _)
\* [s.strip() for s in parts if s and s.strip()]
StripAll(parts, i, out) ==
    IF i > Len(parts) THEN out
    ELSE LET p == Strip(parts[i])
         IN  StripAll(parts, i + 1, IF p = <<>> THEN out ELSE Append(out, p))

_split_sentences(t) == StripAll(SplitRe(t, 1, <<>>), 1, <<>>)

RECURSIVE SkipUntil(_, _, _)
\* The first position >= i of s whose character is in set (Len(s) + 1 if none).
SkipUntil(s, i, set) ==
    IF i > Len(s) \/ s[i] \in set THEN i ELSE SkipUntil(s, i + 1, set)

RECURSIVE Findall(_, _, _)
\* _WORD_RE.findall(s), from position i: the maximal runs of word characters.
Findall(s, i, toks) ==
    LET b == SkipUntil(s, i, _WORD_RE)
        e == SkipWhile(s, b, _WORD_RE)
    IN  IF b > Len(s) THEN toks
        ELSE Findall(s, e, Append(toks, SubSeq(s, b, e - 1)))

\* _WORD_RE.findall(text.lower())
_tokenize(t) ==
    Findall(Concat([i \in 1..Len(t) |-> Lower(t[i])], 1, Len(t)), 1, <<>>)

\* toks = [t for t in _tokenize(s) if t and t not in stopwords and len(t) > 2]
FilteredTokens(s, stopwords) ==
    SelectSeq(_tokenize(s), LAMBDA t : t /= <<>> /\ t \notin stopwords /\ Len(t) > 2)

RECURSIVE Flatten(_, _, _)
\* all_tokens = [tok for toks in sentence_tokens for tok in toks]
Flatten(seqs, i, out) ==
    IF i > Len(seqs) THEN out ELSE Flatten(seqs, i + 1, out \o seqs[i])

\* freq = Counter(all_tokens)
Counter(all_tokens) ==
    [w \in {all_tokens[i] : i \in 1..Len(all_tokens)} |->
        Cardinality({i \in 1..Len(all_tokens) : all_tokens[i] = w})]

\* max_freq = max(freq.values()) if freq else 1
MaxFreq(freq) ==
    IF DOMAIN freq = {} THEN 1
    ELSE CHOOSE c \in {freq[w] : w \in DOMAIN freq} :
             \A w \in DOMAIN freq : freq[w] <= c

----------------------------------------------------------------------------
(* Natural numbers of any size: limbs below 2^15, the least significant     *)
(* first, no zero limb at the top; zero is the empty sequence.              *)

RECURSIVE BigTrim(_)
BigTrim(x) ==
    IF x /= <<>> /\ x[Len(x)] = 0 THEN BigTrim(SubSeq(x, 1, Len(x) - 1)) ELSE x

\* The number n, 0 <= n < 2^31.
BigFromInt(n) == BigTrim(<<n % 32768, (n \div 32768) % 32768, n \div 1073741824>>)

BigLimb(x, i) == IF i \in 1..Len(x) THEN x[i] ELSE 0

\* The number of bits of x: the least L with x < 2^L.
BigBitLen(x) ==
    IF x = <<>> THEN 0
    ELSE 15 * (Len(x) - 1) + (CHOOSE k \in 1..15 : x[Len(x)] \in (2^(k - 1))..(2^k - 1))

\* x * 2^t
BigShl(x, t) ==
    LET q == t \div 15
        s == t % 15
    IN  BigTrim([i \in 1..(Len(x) + q + 1) |->
                    IF i <= q THEN 0
                    ELSE (BigLimb(x, i - q) % 2^(15 - s)) * 2^s
                             + BigLimb(x, i - q - 1) \div 2^(15 - s)])

\* x \div 2^t
BigShr(x, t) ==
    LET q == t \div 15
        s == t % 15
    IN  BigTrim([i \in 1..(Len(x) - q) |->
                    BigLimb(x, i + q) \div 2^s
                        + (BigLimb(x, i + q + 1) % 2^s) * 2^(15 - s)])

\* Bit i of x (bit 0 is the least significant).
BigBit(x, i) == (BigLimb(x, i \div 15 + 1) \div 2^(i % 15)) % 2

\* Whether one of the t lowest bits of x is set: x % 2^t /= 0.
BigLowBits(x, t) ==
    \E i \in 1..Len(x) :
        \/ i <= t \div 15 /\ x[i] /= 0
        \/ i = t \div 15 + 1 /\ x[i] % 2^(t % 15) /= 0

RECURSIVE BigAddFrom(_, _, _, _, _)
BigAddFrom(x, y, i, carry, out) ==
    IF i > Len(x) /\ i > Len(y)
    THEN IF carry = 0 THEN out ELSE Append(out, carry)
    ELSE LET s == BigLimb(x, i) + BigLimb(y, i) + carry
         IN  BigAddFrom(x, y, i + 1, s \div 32768, Append(out, s % 32768))

\* x + y
BigAdd(x, y) == BigAddFrom(x, y, 1, 0, <<>>)

RECURSIVE BigDivFrom(_, _, _, _, _)
BigDivFrom(x, n, i, rem, out) ==
    IF i < 1 THEN [quot |-> BigTrim(out), rem |-> rem]
    ELSE LET cur == rem * 32768 + x[i]
         IN  BigDivFrom(x, n, i - 1, cur % n, <<cur \div n>> \o out)

\* Quotient and remainder of x by n, 0 < n < 2^16: long division from the top limb.
BigDivMod(x, n) == BigDivFrom(x, n, Len(x), 0, <<>>)

\* x > y
BigGreater(x, y) ==
    \/ Len(x) > Len(y)
    \/ /\ Len(x) = Len(y)
       /\ \E i \in 1..Len(x) :
              /\ x[i] > y[i]
              /\ \A j \in (i + 1)..Len(x) : x[j] = y[j]

----------------------------------------------------------------------------
(* Python floats (IEEE 754 binary64) *)

\* 0.0
FloatZero == [m |-> <<>>, e |-> 0]

\* The float nearest to n * 2^e, or to a number just above it when inexact
\* is TRUE (a remainder was dropped below the last bit of n): n is cut to 53
\* bits and rounded to nearest, a tie going to the even significand.
FloatRound(n, e, inexact) ==
    LET len == BigBitLen(n)
        cut == len - 53
        kept == BigShr(n, cut)
        up == /\ BigBit(n, cut - 1) = 1
              /\ \/ BigLowBits(n, cut - 1)
                 \/ inexact
                 \/ BigBit(n, cut) = 1
        m == IF up THEN BigAdd(kept, <<1>>) ELSE kept
    IN  IF n = <<>> THEN FloatZero
        ELSE IF cut <= 0 THEN [m |-> BigShl(n, -cut), e |-> e + cut]
        ELSE IF BigBitLen(m) > 53 THEN [m |-> BigShr(m, 1), e |-> e + cut + 1]
        ELSE [m |-> m, e |-> e + cut]

\* float(n) of an int 0 <= n < 2^31 (exact)
FloatOfInt(n) == FloatRound(BigFromInt(n), 0, FALSE)

\* x / n for a float x >= 0 and an int 0 < n < 2^16: the quotient of the
\* significand, carried 20 bits further, then rounded.
FloatDiv(x, n) ==
    LET d == BigDivMod(BigShl(x.m, 20), n)
    IN  FloatRound(d.quot, x.e - 20, d.rem /= 0)

\* x + y for floats x, y >= 0: the exact sum, rounded.
FloatAdd(x, y) ==
    LET e == Min2(x.e, y.e)
    IN  IF x.m = <<>> THEN y
        ELSE IF y.m = <<>> THEN x
        ELSE FloatRound(BigAdd(BigShl(x.m, x.e - e), BigShl(y.m, y.e - e)), e, FALSE)

\* x > y for floats x, y >= 0
FloatGreater(x, y) ==
    /\ x.m /= <<>>
    /\ \/ y.m = <<>>
       \/ x.e > y.e
       \/ x.e = y.e /\ BigGreater(x.m, y.m)

----------------------------------------------------------------------------
(* Scores *)

\* for w in freq.keys(): freq[w] /= max_freq
Weights(freq, max_freq) ==
    [w \in DOMAIN freq |-> FloatDiv(FloatOfInt(freq[w]), max_freq)]

\* freq.get(t, 0.0)
Weight(freq, t) == IF t \in DOMAIN freq THEN freq[t] ELSE FloatZero

RECURSIVE SumWeights(_, _, _, _)
\* sum(freq.get(t, 0.0) for t in toks), from SumWeights(freq, toks, 1, FloatZero):
\* the floats are added one by one from the left to the start value 0, each
\* sum rounded (sum() of Python 3.11; from 3.12 on it carries a correction term).
SumWeights(freq, toks, i, total) ==
    IF i > Len(toks) THEN total
    ELSE SumWeights(freq, toks, i + 1, FloatAdd(total, Weight(freq, toks[i])))

\* score = sum(freq.get(t, 0.0) for t in toks) / len(toks)
Score(freq, toks) == FloatDiv(SumWeights(freq, toks, 1, FloatZero), Len(toks))

\* The comparisons of two scores that sorted() makes.
ScoreGreater(a, b) == FloatGreater(a, b)
ScoreEqual(a, b) == a = b

RECURSIVE Scores(_, _, _, _, _, _)
\* The loop of lines 128-135: the (idx, score) pairs, in index order, of the
\* sentences that are long enough and have a filtered token.
Scores(sentences, sentence_tokens, freq, min_len, i, out) ==
    IF i > Len(sentences) THEN out
    ELSE IF Len(sentences[i]) < min_len \/ sentence_tokens[i] = <<>>
         THEN Scores(sentences, sentence_tokens, freq, min_len, i + 1, out)
         ELSE Scores(sentences, sentence_tokens, freq, min_len, i + 1,
                     Append(out, [idx |-> i - 1,
                                  score |-> Score(freq, sentence_tokens[i])]))

\* Mutant: the sort without reverse=True (ascending scores).
SortsBefore_Ascending(x, y) == ScoreGreater(y.score, x.score)

\* Mutant: a descending sort that is not stable (equal scores come out in
\* reverse input order, as sorted(...)[::-1] would give).
SortsBefore_TiesReversed(x, y) == ~ScoreGreater(y.score, x.score)

\* Whether x, met later in the index-ordered score list, is placed in front of
\* y by sorted(scores, key=lambda x: x[1], reverse=True).  The sort is stable,
\* also under reverse=True: equal scores keep their input order.
SortsBefore(x, y) == ScoreGreater(x.score, y.score)

RECURSIVE InsertSorted(_, _, _)
InsertSorted(sorted, x, i) ==
    IF i > Len(sorted) \/ SortsBefore(x, sorted[i])
    THEN SubSeq(sorted, 1, i - 1) \o <<x>> \o SubSeq(sorted, i, Len(sorted))
    ELSE InsertSorted(sorted, x, i + 1)

RECURSIVE SortedByScore(_, _, _)
\* sorted(scores, key=lambda x: x[1], reverse=True), from SortedByScore(scores, 1, <<>>)
SortedByScore(scores, i, out) ==
    IF i > Len(scores) THEN out
    ELSE SortedByScore(scores, i + 1, InsertSorted(out, scores[i], 1))

RECURSIVE InsertAsc(_, _, _)
InsertAsc(sorted, x, i) ==
    IF i > Len(sorted) \/ x < sorted[i]
    THEN SubSeq(sorted, 1, i - 1) \o <<x>> \o SubSeq(sorted, i, Len(sorted))
    ELSE InsertAsc(sorted, x, i + 1)

RECURSIVE SortAsc(_, _, _)
SortAsc(xs, i, out) ==
    IF i > Len(xs) THEN out ELSE SortAsc(xs, i + 1, InsertAsc(out, xs[i], 1))

\* Mutant: the chosen indices are emitted in ranking order, not re-sorted.
SortedIndices_Unsorted(top) == [i \in 1..Len(top) |-> top[i].idx]

\* sorted([idx for idx, _ in top])
SortedIndices(top) == SortAsc([i \in 1..Len(top) |-> top[i].idx], 1, <<>>)

\* xs[:k]
Take(xs, k) ==
    SubSeq(xs, 1, IF k < 0 THEN Max2(0, Len(xs) + k) ELSE Min2(k, Len(xs)))

\* list(range(k))
Range0(k) == [i \in 1..k |-> i - 1]

RECURSIVE Join(_, _)
\* " ".join(xs), from Join(xs, 1)
Join(xs, i) ==
    IF i > Len(xs) THEN <<>>
    ELSE IF i = Len(xs) THEN xs[i]
    ELSE xs[i] \o <<Space>> \o Join(xs, i + 1)

\* int(max(1, n * r)) for r = <<num, bits>>: the product when it exceeds 1,
\* truncated by int(), else 1.
IntMax1(n, r) ==
    IF n * r[1] > 2^r[2] THEN (n * r[1]) \div 2^r[2] ELSE 1

\* Mutant: the cap by max_sentences is forgotten.
TargetK_NoCap(n, max_s, r) == Max2(1, IntMax1(n, r))

\* Mutant: the product is rounded up instead of truncated.
TargetK_Ceil(n, max_s, r) ==
    Max2(1, Min2(max_s, Max2(1, -((-(n * r[1])) \div 2^r[2]))))

\* k = max(1, min(max_sentences, int(max(1, len(sentences) * ratio))))
TargetK(n, max_s, r) == Max2(1, Min2(max_s, IntMax1(n, r)))

ShortTextLen == 200

\* Mutant: "and" in place of "or".
ShortDocument_And(sentences, cleaned) ==
    Len(sentences) <= 2 /\ Len(cleaned) < ShortTextLen

\* Mutant: the length test is dropped.
ShortDocument_CountOnly(sentences, cleaned) == Len(sentences) <= 2

\* len(sentences) <= 2 or len(cleaned) < 200
ShortDocument(sentences, cleaned) ==
    Len(sentences) <= 2 \/ Len(cleaned) < ShortTextLen

\* cleaned = _normalize_whitespace(text or "")
Cleaned(t) == _normalize_whitespace(OrElse(t, <<>>, <<>>))

Language(t) == IF _has_arabic(t) THEN "ar" ELSE "en"

\* stopwords = self.stopwords_ar if lang == "ar" else self.stopwords_en
ActiveStopwords(lang, sw_ar, sw_en) == IF lang = "ar" THEN sw_ar ELSE sw_en

\* The loop of lines 107-110.
SentenceTokens(sentences, stopwords) ==
    [i \in 1..Len(sentences) |-> FilteredTokens(sentences[i], stopwords)]

AllTokens(sentence_tokens) == Flatten(sentence_tokens, 1, <<>>)

ScoresOf(sentences, sentence_tokens, min_len) ==
    LET counts == Counter(AllTokens(sentence_tokens))
        freq == Weights(counts, MaxFreq(counts))
    IN  Scores(sentences, sentence_tokens, freq, min_len, 1, <<>>)

\* Lines 137-143: the indices selected once the scores are known.
SelectedIdx(scores, k) ==
    IF scores = <<>> THEN Range0(k)
    ELSE SortedIndices(Take(SortedByScore(scores, 1, <<>>), k))

Returned(summary, language, selected_indices, sentences_count) ==
    [raised |-> "", summary |-> summary, language |-> language,
     selected_indices |-> selected_indices, sentences_count |-> sentences_count]

\* summarize left by an exception: nothing is returned.
Raised(exception) ==
    [raised |-> exception, summary |-> <<>>, language |-> "",
     selected_indices |-> <<>>, sentences_count |-> 0]

NoResult == Raised("not called")

\* The locals of summarize at its end.  A local that the run did not come to
\* assign has the value its assignment would give it, except scores, which
\* is empty unless the run reached the scoring loop of lines 123-135.
Locals(sw_ar, sw_en, t, max_s, r, min_len) ==
    LET cleaned == Cleaned(t)
        lang == Language(cleaned)
        sentences == _split_sentences(cleaned)
        sentence_tokens ==
            SentenceTokens(sentences, ActiveStopwords(lang, sw_ar, sw_en))
    IN  [cleaned |-> cleaned, lang |-> lang, sentences |-> sentences,
         sentence_tokens |-> sentence_tokens,
         scores |-> IF \/ ShortDocument(sentences, cleaned)
                       \/ AllTokens(sentence_tokens) = <<>>
                    THEN <<>>
                    ELSE ScoresOf(sentences, sentence_tokens, min_len),
         k |-> TargetK(Len(sentences), max_s, r)]

NoLocals ==
    [cleaned |-> <<>>, lang |-> "", sentences |-> <<>>, sentence_tokens |-> <<>>,
     scores |-> <<>>, k |-> 0]

\* What summarize returns, or raises, on the text argument t with the locals f.
Outcome(t, f) ==
    LET n == Len(f.sentences)
        selected_idx == SelectedIdx(f.scores, f.k)
    IN  IF f.cleaned = <<>>
        THEN Returned(<<>>, Language(OrElse(t, <<>>, <<>>)), <<>>, 0)
        ELSE IF f.sentences = <<>>
        THEN Returned(<<>>, f.lang, <<>>, 0)
        ELSE IF ShortDocument(f.sentences, f.cleaned)
        THEN Returned(f.cleaned, f.lang, Range0(n), n)
        ELSE IF AllTokens(f.sentence_tokens) = <<>>
        THEN Returned(Strip(Join(Take(f.sentences, f.k), 1)), f.lang, Range0(f.k), n)
        \* summary_sentences = [sentences[i] for i in selected_idx]
        ELSE IF \E j \in 1..Len(selected_idx) : selected_idx[j] >= n
        THEN Raised("IndexError")
        ELSE Returned(
                 Strip(Join([j \in 1..Len(selected_idx) |->
                                f.sentences[selected_idx[j] + 1]], 1)),
                 f.lang, selected_idx, n)

\* AIService.summarize(text, max_sentences, ratio, min_sentence_len)
Summarize(sw_ar, sw_en, t, max_s, r, min_len) ==
    Outcome(t, Locals(sw_ar, sw_en, t, max_s, r, min_len))

----------------------------------------------------------------------------
(* Inputs *)

\* "Rising seas flood coastal cities while the climate crisis deepens. Coastal cities face rising seas and the climate crisis is a risk."
PieceClimate == <<
    82, 105, 115, 105, 110, 103, 32, 115, 101, 97, 115, 32, 102, 108, 111, 111, 100, 32, 99, 111,
    97, 115, 116, 97, 108, 32, 99, 105, 116, 105, 101, 115, 32, 119, 104, 105, 108, 101, 32, 116,
    104, 101, 32, 99, 108, 105, 109, 97, 116, 101, 32, 99, 114, 105, 115, 105, 115, 32, 100, 101,
    101, 112, 101, 110, 115, 46, 32, 67, 111, 97, 115, 116, 97, 108, 32, 99, 105, 116, 105, 101,
    115, 32, 102, 97, 99, 101, 32, 114, 105, 115, 105, 110, 103, 32, 115, 101, 97, 115, 32, 97, 110,
    100, 32, 116, 104, 101, 32, 99, 108, 105, 109, 97, 116, 101, 32, 99, 114, 105, 115, 105, 115,
    32, 105, 115, 32, 97, 32, 114, 105, 115, 107, 46 >>

\* "Fish markets close early on weekends, and most fish stalls are shut before lunch time, so buyers come at dawn!"
PieceFish == <<
    70, 105, 115, 104, 32, 109, 97, 114, 107, 101, 116, 115, 32, 99, 108, 111, 115, 101, 32, 101,
    97, 114, 108, 121, 32, 111, 110, 32, 119, 101, 101, 107, 101, 110, 100, 115, 44, 32, 97, 110,
    100, 32, 109, 111, 115, 116, 32, 102, 105, 115, 104, 32, 115, 116, 97, 108, 108, 115, 32, 97,
    114, 101, 32, 115, 104, 117, 116, 32, 98, 101, 102, 111, 114, 101, 32, 108, 117, 110, 99, 104,
    32, 116, 105, 109, 101, 44, 32, 115, 111, 32, 98, 117, 121, 101, 114, 115, 32, 99, 111, 109,
    101, 32, 97, 116, 32, 100, 97, 119, 110, 33 >>

\* "It is what it is and so it was to be, but who are we to do that? We are what we are and you do as you do to me."
PieceStop == <<
    73, 116, 32, 105, 115, 32, 119, 104, 97, 116, 32, 105, 116, 32, 105, 115, 32, 97, 110, 100, 32,
    115, 111, 32, 105, 116, 32, 119, 97, 115, 32, 116, 111, 32, 98, 101, 44, 32, 98, 117, 116, 32,
    119, 104, 111, 32, 97, 114, 101, 32, 119, 101, 32, 116, 111, 32, 100, 111, 32, 116, 104, 97,
    116, 63, 32, 87, 101, 32, 97, 114, 101, 32, 119, 104, 97, 116, 32, 119, 101, 32, 97, 114, 101,
    32, 97, 110, 100, 32, 121, 111, 117, 32, 100, 111, 32, 97, 115, 32, 121, 111, 117, 32, 100, 111,
    32, 116, 111, 32, 109, 101, 46 >>

\* "  Tides rise.\n\nNotes on  the climate crisis "
PieceNotes == <<
    32, 32, 84, 105, 100, 101, 115, 32, 114, 105, 115, 101, 46, 10, 10, 78, 111, 116, 101, 115, 32,
    111, 110, 32, 32, 116, 104, 101, 32, 99, 108, 105, 109, 97, 116, 101, 32, 99, 114, 105, 115,
    105, 115, 32 >>

\* "Seas hit 300K in 2024! Istanbul floods again and the climate crisis is in
\* Istanbul." with the Kelvin sign U+212A for K, the Devanagari digits
\* U+0968 U+0966 U+0968 U+096A for 2024 and U+0130, the dotted capital I, for I
PieceKelvin == <<
    83, 101, 97, 115, 32, 104, 105, 116, 32, 51, 48, 48, 8490, 32, 105, 110, 32, 2408, 2406, 2408,
    2410, 33, 32, 304, 115, 116, 97, 110, 98, 117, 108, 32, 102, 108, 111, 111, 100, 115, 32, 97,
    103, 97, 105, 110, 32, 97, 110, 100, 32, 116, 104, 101, 32, 99, 108, 105, 109, 97, 116, 101, 32,
    99, 114, 105, 115, 105, 115, 32, 105, 115, 32, 105, 110, 32, 304, 115, 116, 97, 110, 98, 117,
    108, 46 >>

\* three Arabic sentences (113 characters) that end in the Arabic question mark,
\* an ellipsis and an exclamation mark
PieceArabic == <<
    1607, 1584, 1575, 32, 1575, 1604, 1605, 1606, 1575, 1582, 32, 1610, 1607, 1583, 1583, 32, 1575,
    1604, 1605, 1583, 1606, 32, 1575, 1604, 1587, 1575, 1581, 1604, 1610, 1577, 32, 1608, 32, 1575,
    1604, 1605, 1606, 1575, 1582, 32, 1610, 1578, 1594, 1610, 1585, 32, 1576, 1587, 1585, 1593,
    1577, 32, 1603, 1576, 1610, 1585, 1577, 32, 1601, 1610, 32, 1603, 1604, 32, 1593, 1575, 1605,
    1567, 32, 1575, 1604, 1605, 1583, 1606, 32, 1575, 1604, 1587, 1575, 1581, 1604, 1610, 1577, 32,
    1601, 1610, 32, 1582, 1591, 1585, 32, 1603, 1576, 1610, 1585, 8230, 32, 1604, 1603, 1606, 32,
    1575, 1604, 1605, 1583, 1606, 32, 1578, 1578, 1594, 1610, 1585, 33 >>


\* The scenario text of the specification: "The climate crisis threatens coastal
\* cities. Fish markets close early on weekends. Coastal cities face rising
\* seas and climate crisis risk."
ScenarioText == <<
    84, 104, 101, 32, 99, 108, 105, 109, 97, 116, 101, 32, 99, 114, 105, 115, 105, 115, 32, 116,
    104, 114, 101, 97, 116, 101, 110, 115, 32, 99, 111, 97, 115, 116, 97, 108, 32, 99, 105, 116,
    105, 101, 115, 46, 32, 70, 105, 115, 104, 32, 109, 97, 114, 107, 101, 116, 115, 32, 99, 108,
    111, 115, 101, 32, 101, 97, 114, 108, 121, 32, 111, 110, 32, 119, 101, 101, 107, 101, 110, 100,
    115, 46, 32, 67, 111, 97, 115, 116, 97, 108, 32, 99, 105, 116, 105, 101, 115, 32, 102, 97, 99,
    101, 32, 114, 105, 115, 105, 110, 103, 32, 115, 101, 97, 115, 32, 97, 110, 100, 32, 99, 108,
    105, 109, 97, 116, 101, 32, 99, 114, 105, 115, 105, 115, 32, 114, 105, 115, 107, 46 >>

\* {"fish", "markets", "what"}
CustomStopwordsEn == {
    <<102,105,115,104>>, <<109,97,114,107,101,116,115>>, <<119,104,97,116>> }
\* one Arabic word of PieceArabic
CustomStopwordsAr == {
    <<1575,1604,1605,1606,1575,1582>> }

\* A document is at most MaxPieces pieces joined by single spaces.
MaxPieces == 2
\* max_sentences is drawn from 0..MaxMaxSentences.
MaxMaxSentences == 4

Pieces == {"Climate", "Fish", "Stop", "Notes", "Kelvin", "Arabic"}

PieceChars(name) ==
    CASE name = "Climate" -> PieceClimate
      [] name = "Fish" -> PieceFish
      [] name = "Stop" -> PieceStop
      [] name = "Notes" -> PieceNotes
      [] name = "Kelvin" -> PieceKelvin
      [] name = "Arabic" -> PieceArabic
      [] name = "Scenario" -> ScenarioText

Documents ==
    {<<"Scenario">>} \cup UNION {[1..len -> Pieces] : len \in 0..MaxPieces}

\* The variable text names the text argument by how it is put together: None,
\* or the pieces of a document.  TextArg is the argument itself.
Texts == {[none |-> TRUE, pieces |-> <<>>]}
             \cup {[none |-> FALSE, pieces |-> d] : d \in Documents}

TextArg(t) ==
    IF t.none THEN None
    ELSE Some(Join([i \in 1..Len(t.pieces) |-> PieceChars(t.pieces[i])], 1))

\* ratio: -0.5, 0.25, 0.5, 1.0, 2.0
Ratios == {<<-1, 1>>, <<1, 2>>, <<1, 1>>, <<1, 0>>, <<2, 0>>}

MinSentenceLens == {0, 30, 120}

StopwordArgsEn == {NoneSet, Some({}), Some(CustomStopwordsEn)}
StopwordArgsAr == {NoneSet, Some({}), Some(CustomStopwordsAr)}

----------------------------------------------------------------------------
(* The state machine *)

\* The arguments of one run: either the default service with every text and
\* every parameter value, or every constructor argument with every text and
\* the scenario's parameters.
Init ==
    /\ pc = "new"
    /\ stopwords_ar = {}
    /\ stopwords_en = {}
    /\ locals = NoLocals
    /\ result = NoResult
    /\ text \in Texts
    /\ \/ /\ arg_stopwords_ar = NoneSet
          /\ arg_stopwords_en = NoneSet
          /\ max_sentences \in 0..MaxMaxSentences
          /\ ratio \in Ratios
          /\ min_sentence_len \in MinSentenceLens
       \/ /\ arg_stopwords_ar \in StopwordArgsAr
          /\ arg_stopwords_en \in StopwordArgsEn
          /\ max_sentences = 2
          /\ ratio = <<1, 0>>
          /\ min_sentence_len = 30

\* AIService.__init__(stopwords_ar, stopwords_en)
Construct ==
    /\ pc = "new"
    /\ stopwords_ar' = OrElse(arg_stopwords_ar, {}, _STOPWORDS_AR)
    /\ stopwords_en' = OrElse(arg_stopwords_en, {}, _STOPWORDS_EN)
    /\ pc' = "ready"
    /\ UNCHANGED <<arg_stopwords_ar, arg_stopwords_en, text, max_sentences,
                   ratio, min_sentence_len, locals, result>>

\* AIService.summarize(text, max_sentences, ratio, min_sentence_len)
SummarizeCall ==
    /\ pc = "ready"
    /\ locals' = Locals(stopwords_ar, stopwords_en, TextArg(text), max_sentences,
                      ratio, min_sentence_len)
    /\ result' = Outcome(TextArg(text), locals')
    /\ pc' = "done"
    /\ UNCHANGED <<arg_stopwords_ar, arg_stopwords_en, stopwords_ar, stopwords_en,
                   text, max_sentences, ratio, min_sentence_len>>

Next == Construct \/ SummarizeCall

Spec == Init /\ [][Next]_vars

----------------------------------------------------------------------------
(* The call of the current run, as the claims below read it: c is locals *)

Done == pc = "done"
Returns == Done /\ result.raised = ""

\* More than 2 sentences and at least 200 normalized characters.
PastShortCircuit(c) == Len(c.sentences) > 2 /\ Len(c.cleaned) >= 200
NoTokenPath(c) == PastShortCircuit(c) /\ AllTokens(c.sentence_tokens) = <<>>
NoScorePath(c) == PastShortCircuit(c) /\ c.scores = <<>>
ScoredPath(c) == PastShortCircuit(c) /\ c.scores /= <<>>

DefaultService == arg_stopwords_ar.none /\ arg_stopwords_en.none

StrictlyAscending(xs) == \A i \in 1..Len(xs) - 1 : xs[i] < xs[i + 1]
Elements(xs) == {xs[i] : i \in 1..Len(xs)}

\* max(1, min(max_sentences, .)) of n * ratio rounded up, and of
\* max(1, n * ratio) rounded down, for ratio = num / 2^bits.
CeilK(n) == Max2(1, Min2(max_sentences, -((-(n * ratio[1])) \div 2^ratio[2])))
FloorK(n) ==
    Max2(1, Min2(max_sentences, Max2(1, (n * ratio[1]) \div 2^ratio[2])))

\* The number of indices selected when K is the target count.
SelectedCount(c, K) == IF c.scores = <<>> THEN K ELSE Min2(K, Len(c.scores))

\* The scored sentences left out of, and taken into, the selection.
Unselected(c) ==
    {i \in 1..Len(c.scores) : c.scores[i].idx \notin Elements(result.selected_indices)}
Selected(c) ==
    {i \in 1..Len(c.scores) : c.scores[i].idx \in Elements(result.selected_indices)}

----------------------------------------------------------------------------
(* Claims *)

\* C1: a non-empty normalized text with at most 2 sentences or fewer than 200
\* characters is returned whole: selected_indices = [0..sentences_count-1] and
\* summary is the normalized text, whatever the parameters.
C1_ShortCircuit ==
    LET c == locals
    IN  (Done /\ c.cleaned /= <<>> /\ (Len(c.sentences) <= 2 \/ Len(c.cleaned) < 200))
            => /\ result.raised = ""
               /\ result.sentences_count = Len(c.sentences)
               /\ result.selected_indices = Range0(Len(c.sentences))
               /\ result.summary = c.cleaned

\* C1 witness: a text of 200 characters or more that has only two sentences
\* came back whole although K was 1.
C1_Witness ==
    LET c == locals
    IN  /\ Done
        /\ Len(c.sentences) = 2 /\ Len(c.cleaned) >= 200
        /\ c.k = 1
        /\ result.selected_indices = <<0, 1>>

\* C2: past the short-circuit, with max_sentences >= 1 and ratio in (0,1],
\* 1 <= len(selected_indices) <= min(max_sentences, sentences_count).
C2_KBound ==
    (Done /\ PastShortCircuit(locals) /\ max_sentences >= 1
          /\ ratio[1] > 0 /\ ratio[1] <= 2^ratio[2])
        => /\ result.raised = ""
           /\ 1 <= Len(result.selected_indices)
           /\ Len(result.selected_indices) <= Min2(max_sentences, result.sentences_count)

\* C2 witness: a fallback run with ratio 1 where max_sentences = 2 caps the
\* selection below the sentence count.
C2_Witness ==
    /\ Returns /\ NoScorePath(locals)
    /\ max_sentences = 2 /\ ratio = <<1, 0>>
    /\ Len(result.selected_indices) = 2 /\ result.sentences_count > 2

\* C3: selected_indices of every returned result is strictly ascending.
C3_Ascending == Returns => StrictlyAscending(result.selected_indices)

\* C3 witness: a scored run whose top sentences, in descending score order,
\* are not in index order, and at least two were selected.
C3_Witness ==
    LET c == locals
        top == Take(SortedByScore(c.scores, 1, <<>>), c.k)
    IN  /\ Returns /\ ScoredPath(c)
        /\ Len(result.selected_indices) >= 2
        /\ ~StrictlyAscending([i \in 1..Len(top) |-> top[i].idx])

\* C4 as claimed: past the short-circuit the target count is
\* max(1, min(max_sentences, ceil(len(sentences) * ratio))).
C4_CeilTargetCount ==
    LET c == locals
    IN  (Returns /\ PastShortCircuit(c))
            => Len(result.selected_indices) = SelectedCount(c, CeilK(Len(c.sentences)))

\* C4 amended: the product is truncated, not rounded up:
\* K = max(1, min(max_sentences, floor(max(1, len(sentences) * ratio)))),
\* on the fallback paths and on the scored path alike.
C4_FloorTargetCount ==
    LET c == locals
    IN  (Returns /\ PastShortCircuit(c))
            => Len(result.selected_indices) = SelectedCount(c, FloorK(Len(c.sentences)))

\* C4 witness: the product has a fractional part and rounding it up would
\* have selected one sentence more.
C4_Witness ==
    LET c == locals
        n == Len(c.sentences)
    IN  /\ Returns /\ PastShortCircuit(c)
        /\ CeilK(n) = FloorK(n) + 1
        /\ SelectedCount(c, CeilK(n)) = SelectedCount(c, FloorK(n)) + 1
        /\ Len(result.selected_indices) = FloorK(n)

\* C5: summarize never raises, and whenever there is a sentence every selected
\* index lies in 0..sentences_count-1, for malformed parameters too.
C5_TotalAndInRange ==
    Done => /\ result.raised = ""
            /\ \A i \in 1..Len(result.selected_indices) :
                   result.selected_indices[i] \in 0..(result.sentences_count - 1)

\* C6: past the short-circuit, when no token survives filtering or no sentence
\* is scored, summarize returns the first K sentences: selected_indices =
\* [0..K-1], summary those sentences joined by single spaces, and no failure.
C6_FallbackFirstK ==
    LET c == locals
    IN  (Done /\ (NoTokenPath(c) \/ NoScorePath(c)))
            => /\ result.raised = ""
               /\ result.selected_indices = Range0(c.k)
               /\ result.summary = Join(Take(c.sentences, c.k), 1)

\* The scenario of the specification, with the default service.
Scenario ==
    /\ DefaultService
    /\ text = [none |-> FALSE, pieces |-> <<"Scenario">>]
    /\ max_sentences = 2 /\ ratio = <<1, 0>> /\ min_sentence_len = 30

\* C7 as claimed: the scenario selects the sentences 0 and 2 and leaves the
\* fish-markets sentence out.
C7_ScenarioSelectsTwo ==
    (Done /\ Scenario) => (result.raised = "" /\ result.selected_indices = <<0, 2>>)

\* C7 amended: the scenario text has 139 characters, fewer than 200, so it is
\* returned whole: selected_indices = [0, 1, 2] and summary is the text.
C7_ScenarioReturnedWhole ==
    (Done /\ Scenario)
        => /\ result.raised = ""
           /\ result.sentences_count = 3
           /\ result.selected_indices = <<0, 1, 2>>
           /\ result.summary = ScenarioText

\* C7 witness: summarize has returned on the scenario.
C7_Witness == Returns /\ Scenario /\ Len(ScenarioText) = 139

\* C8: each stopword set supplied at construction, the empty set included,
\* is the set the service filters with; the built-in set is used only when
\* none is supplied.
C8_SuppliedSetUsed ==
    pc /= "new"
        => /\ stopwords_ar =
                  IF arg_stopwords_ar.none THEN _STOPWORDS_AR ELSE arg_stopwords_ar.val
           /\ stopwords_en =
                  IF arg_stopwords_en.none THEN _STOPWORDS_EN ELSE arg_stopwords_en.val

\* C9: on the scored path exactly min(K, number of scored sentences) sentences
\* are selected, each long enough and with a filtered token, and no unselected
\* scored sentence has a strictly higher score than a selected one.
C9_TopKByScore ==
    LET c == locals
    IN  (Done /\ ScoredPath(c))
            => /\ result.raised = ""
               /\ Len(result.selected_indices) = Min2(c.k, Len(c.scores))
               /\ \A s \in Elements(result.selected_indices) :
                      /\ s \in 0..(Len(c.sentences) - 1)
                      /\ Len(c.sentences[s + 1]) >= min_sentence_len
                      /\ c.sentence_tokens[s + 1] /= <<>>
               /\ \A u \in Unselected(c) : \A s \in Selected(c) :
                      ~ScoreGreater(c.scores[u].score, c.scores[s].score)

\* C9 witness: a scored run that left out a scored sentence of strictly lower
\* score and an unscored sentence as well.
C9_Witness ==
    LET c == locals
    IN  /\ Returns /\ ScoredPath(c)
        /\ Len(c.scores) < Len(c.sentences)
        /\ \E u \in Unselected(c) : \A s \in Selected(c) :
               ScoreGreater(c.scores[s].score, c.scores[u].score)

\* C10: on the scored path, of two scored sentences with equal scores of which
\* only one is selected, the selected one has the smaller index.
C10_TieBreakByIndex ==
    LET c == locals
    IN  (Returns /\ ScoredPath(c))
            => \A u \in Unselected(c) : \A s \in Selected(c) :
                   ScoreEqual(c.scores[u].score, c.scores[s].score)
                       => c.scores[s].idx < c.scores[u].idx

\* C10 witness: a tie across the cut: a selected and an unselected scored
\* sentence have the same score.
C10_Witness ==
    LET c == locals
    IN  /\ Returns /\ ScoredPath(c)
        /\ \E u \in Unselected(c) : \E s \in Selected(c) :
               ScoreEqual(c.scores[u].score, c.scores[s].score)
====
